---- MODULE Spec2Model ----
(***************************************************************************)
(* Story Mode extension (src/index.js): the arc progression engine.        *)
(*                                                                         *)
(* State: the extension settings, the per-chat story state kept in the     *)
(* chat metadata, the chat arrays, the two transient flags, the pending    *)
(* chat-load timers, the in-flight onMessageReceived invocations and the   *)
(* text held by the extension prompt.                                      *)
(*                                                                         *)
(* An async handler is one action up to its first real suspension (a       *)
(* saveMetadata, a generateRaw or a setTimeout) and one action per         *)
(* resumption.  An await of pushStoryMessage, which performs no I/O, is    *)
(* not a point where another signal is delivered.                          *)
(***************************************************************************)
EXTENDS Integers, Sequences, FiniteSets, TLC

\* ---------------------------------------------------------------- bounds
MinArcLength == 5      \* <input type="range" id="arc_length_slider" min="5">
MaxHandlers  == 2      \* onMessageReceived invocations in flight at once
MaxTimers    == 2      \* chat-load timers pending at once
MaxStoryMsgs == 2      \* messages pushStoryMessage puts into one chat

\* the values the arc length slider is moved to (it goes up to 300)
ArcLengths == {MinArcLength, MinArcLength + 1}
NoState    == [absent |-> TRUE]

\* the catalogs (ids only)
storyTypes   == {"t1"}
authorStyles == {"s1"}

VARIABLES
    settings,        \* extension_settings[MODULE_NAME]
    chatMetadata,    \* chatMetadata[MODULE_NAME] of the open chat, or NoState
    chat,            \* the chat array of the open chat: whether the host has put
                     \* messages into it, and how many of each kind
                     \* pushStoryMessage has
    isRegenerating,
    isLoadingChat,
    timers,          \* setTimeout callbacks of onChatChanged not yet run
    handlers,        \* slot -> an onMessageReceived invocation
    injection,       \* what setExtensionPrompt was last called with
    scen,            \* history: where the run is in a swipe scenario
    call             \* the function applied on its own, with its arguments
                     \* and the value it returned

vars == <<settings, chatMetadata, chat, isRegenerating, isLoadingChat,
          timers, handlers, injection, scen, call>>

\* ------------------------------------------------------- defaultSettings
defaultSettings ==
    [enabled |-> FALSE, storyArcEnabled |-> FALSE,
     selectedStoryType |-> "", selectedAuthorStyle |-> "",
     arcLength |-> 30, authorStyleEnabled |-> FALSE, nsfwEnabled |-> FALSE,
     epilogueEnabled |-> FALSE, summaryEnabled |-> FALSE,
     debugMode |-> FALSE, position |-> "IN_CHAT"]

\* ------------------------------------------------------------ PhaseCalculator
\* Math.round in place of Math.floor
Round66(n) == (n * 66 + 50) \div 100

Floor33(n) == (n * 33) \div 100     \* Math.floor(n * 0.33)
Floor66(n) == (n * 66) \div 100     \* Math.floor(n * 0.66)

\* Math.round(p / t * 100) for p >= 0, t > 0 (the double falls on the other
\* side of a half from t = 40 on only)
RoundPercent(p, t) == (200 * p + t) \div (2 * t)

\* getPhaseInfo that has no phase for a step past the arc length
getPhaseInfoNoOverrun(currentStep, arcLength0) ==
    LET phase == IF currentStep <= Floor33(arcLength0) THEN "setup"
                 ELSE IF currentStep <= Floor66(arcLength0) THEN "confrontation"
                 ELSE IF currentStep <= arcLength0 THEN "resolution"
                 ELSE "none"
    IN  [phase |-> phase, positionInPhase |-> 0, totalInPhase |-> 0,
         percentInPhase |-> -1, phaseStart |-> 0, phaseEnd |-> 0]

getPhaseInfo(currentStep, arcLength0) ==
    LET arcLength       == IF arcLength0 <= 0 THEN 30 ELSE arcLength0
        setupEnd         == Floor33(arcLength)
        confrontationEnd == Floor66(arcLength)
        phase      == IF currentStep <= setupEnd THEN "setup"
                      ELSE IF currentStep <= confrontationEnd THEN "confrontation"
                      ELSE "resolution"
        phaseStart == IF phase = "setup" THEN 1
                      ELSE IF phase = "confrontation" THEN setupEnd + 1
                      ELSE confrontationEnd + 1
        phaseEnd   == IF phase = "setup" THEN setupEnd
                      ELSE IF phase = "confrontation" THEN confrontationEnd
                      ELSE arcLength
        positionInPhase == IF phase = "setup" THEN currentStep
                           ELSE IF phase = "confrontation" THEN currentStep - setupEnd
                           ELSE currentStep - confrontationEnd
        totalInPhase == phaseEnd - phaseStart + 1
    IN  [phase |-> phase, positionInPhase |-> positionInPhase,
         totalInPhase |-> totalInPhase,
         percentInPhase |-> IF totalInPhase > 0
                            THEN RoundPercent(positionInPhase, totalInPhase)
                            ELSE -1,
         phaseStart |-> phaseStart, phaseEnd |-> phaseEnd]

\* ------------------------------------------------------------ ArcStateStore
SeedState(s) ==
    [currentStep |-> 0, arcStarted |-> FALSE,
     epilogueShown |-> FALSE, summaryShown |-> FALSE,
     selectedStoryType |-> s.selectedStoryType,
     selectedAuthorStyle |-> s.selectedAuthorStyle,
     arcLength |-> IF s.arcLength = 0 THEN 30 ELSE s.arcLength]

\* getChatStoryState that seeds on every call
getChatStoryStateReseed(md, s) == SeedState(s)

\* getChatStoryState: the metadata of the open chat after the call, which is
\* also the object the call returns (seeded when it was absent)
getChatStoryState(md, s) == IF md = NoState THEN SeedState(s) ELSE md

\* saveChatStoryState(state) up to its await: the object passed in becomes
\* the metadata of the chat that is open at that moment
saveChatStoryState(state) == state

\* ------------------------------------------------------------ TemplateRenderer
\* A template is a sequence of tokens: "{", "}" and words.  A placeholder is
\* "{", its name, "}".

\* template.replace(/{name}/, value): the first occurrence only
replaceFirst(template, name, value) ==
    IF \E i \in 1..(Len(template) - 2) :
          template[i] = "{" /\ template[i + 1] = name /\ template[i + 2] = "}"
    THEN LET i == CHOOSE j \in 1..(Len(template) - 2) :
                    /\ template[j] = "{" /\ template[j + 1] = name
                    /\ template[j + 2] = "}"
                    /\ \A k \in 1..(j - 1) :
                          ~(template[k] = "{" /\ template[k + 1] = name
                              /\ template[k + 2] = "}")
         IN  SubSeq(template, 1, i - 1) \o <<value>>
               \o SubSeq(template, i + 3, Len(template))
    ELSE template

RECURSIVE replace(_, _, _)
\* template.replace(/{name}/g, value): every occurrence, left to right
replace(template, name, value) ==
    IF Len(template) < 3 THEN template
    ELSE IF template[1] = "{" /\ template[2] = name /\ template[3] = "}"
    THEN <<value>> \o replace(SubSeq(template, 4, Len(template)), name, value)
    ELSE <<template[1]>> \o replace(Tail(template), name, value)

\* the placeholders of the progress template, in the order they are replaced
Placeholders ==
    <<"currentStep", "arcLength", "arcPercent", "phase", "positionInPhase",
      "totalInPhase", "phasePercent", "phaseStart", "phaseEnd">>

\* the text each placeholder is replaced with
PlaceholderValue(name, phaseInfo, chatState) ==
    CASE name = "currentStep"     -> ToString(chatState.currentStep + 1)
      [] name = "arcLength"       -> ToString(chatState.arcLength)
      [] name = "arcPercent"      -> ToString(RoundPercent(chatState.currentStep + 1,
                                                           chatState.arcLength))
      [] name = "phase"           -> phaseInfo.phase
      [] name = "positionInPhase" -> ToString(phaseInfo.positionInPhase)
      [] name = "totalInPhase"    -> ToString(phaseInfo.totalInPhase)
      [] name = "phasePercent"    -> ToString(phaseInfo.percentInPhase)
      [] name = "phaseStart"      -> ToString(phaseInfo.phaseStart)
      [] name = "phaseEnd"        -> ToString(phaseInfo.phaseEnd)

RECURSIVE replaceChain(_, _, _, _)
\* the replace calls from the n-th on, applied to the template
replaceChain(template, n, phaseInfo, chatState) ==
    IF n > Len(Placeholders) THEN template
    ELSE replaceChain(replace(template, Placeholders[n],
                              PlaceholderValue(Placeholders[n], phaseInfo, chatState)),
                      n + 1, phaseInfo, chatState)

\* let progressText of buildPhaseInjection
progressText(template, phaseInfo, chatState) ==
    replaceChain(template, 1, phaseInfo, chatState)

\* ------------------------------------------------------------ InjectionComposer
\* buildPhaseInjection that renders the step just completed
buildPhaseInjectionCurrent(storyType, phaseInfo, chatState, s) ==
    [step |-> chatState.currentStep, arcLength |-> chatState.arcLength,
     phase |-> phaseInfo.phase, positionInPhase |-> phaseInfo.positionInPhase,
     totalInPhase |-> phaseInfo.totalInPhase, debug |-> s.debugMode]

buildPhaseInjection(storyType, phaseInfo, chatState, s) ==
    [step |-> chatState.currentStep + 1, arcLength |-> chatState.arcLength,
     phase |-> phaseInfo.phase, positionInPhase |-> phaseInfo.positionInPhase,
     totalInPhase |-> phaseInfo.totalInPhase, debug |-> s.debugMode]

\* storySegment that does not look the selected id up in the catalog
storySegmentNoLookup(isPreview, s, chatState) ==
    IF /\ s.storyArcEnabled
       /\ chatState.selectedStoryType # ""
       /\ (chatState.currentStep < chatState.arcLength \/ isPreview)
    THEN <<[tag |-> "story", id |-> chatState.selectedStoryType,
            text |-> buildPhaseInjection(chatState.selectedStoryType,
                       getPhaseInfo(chatState.currentStep + 1,
                                    chatState.arcLength),
                       chatState, s)]>>
    ELSE <<>>

\* the story arc part of the injection: one segment or none
storySegment(isPreview, s, chatState) ==
    IF /\ s.storyArcEnabled
       /\ chatState.selectedStoryType # ""
       /\ chatState.selectedStoryType \in storyTypes
       /\ (chatState.currentStep < chatState.arcLength \/ isPreview)
    THEN <<[tag |-> "story", id |-> chatState.selectedStoryType,
            text |-> buildPhaseInjection(chatState.selectedStoryType,
                       getPhaseInfo(chatState.currentStep + 1,
                                    chatState.arcLength),
                       chatState, s)]>>
    ELSE <<>>

\* the author style part of the injection: one segment or none
styleSegment(s, chatState) ==
    IF /\ s.authorStyleEnabled
       /\ chatState.selectedAuthorStyle # ""
       /\ chatState.selectedAuthorStyle \in authorStyles
    THEN <<[tag |-> "style", id |-> chatState.selectedAuthorStyle,
            nsfw |-> s.nsfwEnabled]>>
    ELSE <<>>

\* buildFullInjection without the test of settings.enabled
buildFullInjectionUngated(isPreview, s, chatState) ==
    storySegment(isPreview, s, chatState) \o styleSegment(s, chatState)

\* the parts of the injection, in order; <<>> is the empty string
buildFullInjection(isPreview, s, chatState) ==
    IF ~s.enabled THEN <<>>
    ELSE storySegment(isPreview, s, chatState) \o styleSegment(s, chatState)

Cleared == [text |-> <<>>, position |-> "NONE"]

\* updateStoryPrompt: the prompt it sets, and the metadata after it
PromptAfterUpdate(md, s) ==
    IF ~s.enabled THEN Cleared
    ELSE LET text == buildFullInjection(FALSE, s, getChatStoryState(md, s))
         IN  IF text = <<>> THEN Cleared
             ELSE [text |-> text, position |-> s.position]

MetadataAfterUpdate(md, s) ==
    IF ~s.enabled THEN md ELSE getChatStoryState(md, s)

\* updateStatusDisplay reads the chat state, which seeds it
MetadataAfterStatus(md, s) == getChatStoryState(md, s)

\* ------------------------------------------------------------ the chat array
EmptyChat == [host |-> FALSE, epilogue |-> 0, summary |-> 0, notice |-> 0]

StoryCount(ch) == ch.epilogue + ch.summary + ch.notice

\* chat.length > 0
NonEmpty(ch) == ch.host \/ StoryCount(ch) > 0

\* some message is not a system message and has text: every message modelled
hasText(ch) == NonEmpty(ch)

\* pushStoryMessage: chat.push(message)
pushStoryMessage(ch, kind) ==
    IF kind = "epilogue" THEN [ch EXCEPT !.epilogue = @ + 1]
    ELSE IF kind = "summary" THEN [ch EXCEPT !.summary = @ + 1]
    ELSE [ch EXCEPT !.notice = @ + 1]

CanPush(ch) == StoryCount(ch) < MaxStoryMsgs

\* ------------------------------------------------------------ handler slots
\* obj is the chat state object the invocation holds: Live while it is the
\* metadata object of the open chat, else the object's own value (the host
\* has opened another chat since, whose metadata is another object)
Live     == [live |-> TRUE]
Slots    == 1..MaxHandlers
Idle     == [pc |-> "idle", obj |-> NoState, epiFailed |-> FALSE]
Rejected == [pc |-> "rejected", obj |-> NoState, epiFailed |-> FALSE]      \* ended by an exception

IsFree(h)  == handlers[h].pc \in {"idle", "rejected"}
Quiescent  == \A h \in Slots : IsFree(h)
FreeSlot   == CHOOSE h \in Slots : IsFree(h) /\ \A g \in Slots : IsFree(g) => h <= g

\* the value of the object held by invocation h
Held(h, md) == IF handlers[h].obj = Live THEN md ELSE handlers[h].obj

\* no function is applied on its own
NoCall == [fn |-> "none", done |-> FALSE]

\* ------------------------------------------------------------ Init
\* The extension has loaded: loadSettings merged the stored settings with the
\* defaults, addUI read (and so seeded) the state of the open chat, and the
\* initial updateStoryPrompt ran.
InitSettings ==
    [defaultSettings EXCEPT !.arcLength = MinArcLength,
                            !.selectedStoryType = "t1",
                            !.selectedAuthorStyle = "s1",
                            !.authorStyleEnabled = TRUE]

Init ==
    /\ settings = InitSettings
    /\ chatMetadata = getChatStoryState(NoState, InitSettings)
    /\ chat = EmptyChat
    /\ isRegenerating = FALSE
    /\ isLoadingChat = FALSE
    /\ timers = 0
    /\ handlers = [h \in Slots |-> Idle]
    /\ injection = PromptAfterUpdate(NoState, InitSettings)
    /\ scen = "none"
    /\ call = NoCall

\* ------------------------------------------------------------ lifecycle signals
\* GENERATION_STARTED that takes every chat for a chat with messages
GenerationStartedNormal ==
    /\ isLoadingChat' = FALSE
    /\ isRegenerating' = FALSE
    /\ injection' = PromptAfterUpdate(chatMetadata, settings)
    /\ chatMetadata' = MetadataAfterUpdate(chatMetadata, settings)
    /\ scen' = IF scen = "swiped" THEN "swiped_gen"
               ELSE IF NonEmpty(chat) THEN "none" ELSE "opening"
    /\ UNCHANGED <<call, settings, chat, timers, handlers>>

\* GENERATION_STARTED
GenerationStarted ==
    /\ isLoadingChat' = FALSE
    /\ IF NonEmpty(chat)
       THEN /\ isRegenerating' = FALSE
            /\ injection' = PromptAfterUpdate(chatMetadata, settings)
            /\ chatMetadata' = MetadataAfterUpdate(chatMetadata, settings)
            /\ scen' = IF scen = "swiped" THEN "swiped_gen" ELSE "none"
       ELSE /\ isRegenerating' = TRUE
            /\ scen' = "opening"
            /\ UNCHANGED <<injection, chatMetadata>>
    /\ UNCHANGED <<call, settings, chat, timers, handlers>>

\* the body shared by the MESSAGE_SWIPED and MESSAGE_REGENERATED listeners
SwipeBody ==
    /\ isRegenerating' = TRUE
    /\ injection' = PromptAfterUpdate(chatMetadata, settings)
    /\ chatMetadata' = MetadataAfterUpdate(chatMetadata, settings)
    /\ scen' = "swiped"
    /\ UNCHANGED <<call, settings, chat, isLoadingChat, timers, handlers>>

MessageSwiped == SwipeBody

MessageRegenerated == SwipeBody

\* what the host has in store for the chat it opens: a chat without story
\* state, empty or with a first message
StoredChats ==
    {[md |-> NoState, chat |-> EmptyChat],
     [md |-> NoState, chat |-> [EmptyChat EXCEPT !.host = TRUE]]}

\* the host opens the chat stored as st: every invocation in flight keeps the
\* object of the chat it started in; then onChatChanged runs
ChatChanged(st) ==
    /\ timers < MaxTimers
    /\ chat' = st.chat
    /\ isRegenerating' = FALSE
    /\ isLoadingChat' = TRUE
    /\ injection' = PromptAfterUpdate(st.md, settings)
    /\ chatMetadata' = MetadataAfterStatus(st.md, settings)
    /\ handlers' = [h \in Slots |->
                      IF handlers[h].obj = Live
                      THEN [handlers[h] EXCEPT !.obj = chatMetadata]
                      ELSE handlers[h]]
    /\ timers' = timers + 1
    /\ scen' = "none"
    /\ UNCHANGED <<call, settings>>

\* the setTimeout callback of onChatChanged
ChatLoadTimer ==
    /\ timers > 0
    /\ timers' = timers - 1
    /\ isLoadingChat' = FALSE
    /\ scen' = "none"
    /\ UNCHANGED <<call, settings, chatMetadata, chat, isRegenerating,
                   handlers, injection>>

\* the host puts a message of its own (user or character) into the open chat
HostMessage ==
    /\ ~chat.host
    /\ chat' = [chat EXCEPT !.host = TRUE]
    /\ UNCHANGED <<call, settings, chatMetadata, isRegenerating,
                   isLoadingChat, timers, handlers, injection, scen>>

\* ------------------------------------------------------------ onMessageReceived
\* conditionsMet that lets either shown step stand for both
conditionsMetEither(s, chatState) ==
    \/ (~s.epilogueEnabled /\ ~s.summaryEnabled)
    \/ (s.epilogueEnabled /\ chatState.epilogueShown)
    \/ (s.summaryEnabled /\ chatState.summaryShown)

\* const conditionsMet, of the chat state held by the handler
conditionsMet(s, chatState) ==
    \/ (~s.epilogueEnabled /\ ~s.summaryEnabled)
    \/ (s.epilogueEnabled /\ chatState.epilogueShown /\
          (~s.summaryEnabled \/ chatState.summaryShown))
    \/ (s.summaryEnabled /\ chatState.summaryShown /\
          (~s.epilogueEnabled \/ chatState.epilogueShown))

\* Disposition with the is_user test after the regeneration test
DispositionRegenFirst(isUser) ==
    IF isLoadingChat THEN "loading"
    ELSE IF isRegenerating THEN "regenerating"
    ELSE IF isUser THEN "user"
    ELSE IF ~settings.enabled \/ ~settings.storyArcEnabled THEN "off"
    ELSE "count"

\* Disposition without the regeneration test
DispositionNoRegen(isUser) ==
    IF isUser THEN "user"
    ELSE IF isLoadingChat THEN "loading"
    ELSE IF ~settings.enabled \/ ~settings.storyArcEnabled THEN "off"
    ELSE "count"

\* Disposition without the chat loading test
DispositionNoLoading(isUser) ==
    IF isUser THEN "user"
    ELSE IF isRegenerating THEN "regenerating"
    ELSE IF ~settings.enabled \/ ~settings.storyArcEnabled THEN "off"
    ELSE "count"

\* The four early returns, in the order of the code: which one is taken, or
\* "count" when the message is a checkpoint.
Disposition(isUser) ==
    IF isUser THEN "user"
    ELSE IF isLoadingChat THEN "loading"
    ELSE IF isRegenerating THEN "regenerating"
    ELSE IF ~settings.enabled \/ ~settings.storyArcEnabled THEN "off"
    ELSE "count"

\* Branch with >= in place of ===
BranchAtLeast(chatState) ==
    IF chatState.currentStep < chatState.arcLength THEN "step" ELSE "complete"

\* Branch that still counts a step at currentStep === arcLength
BranchStepAtLength(chatState) ==
    IF chatState.currentStep <= chatState.arcLength THEN "step" ELSE "none"

\* if (currentStep < arcLength) ... else if (currentStep === arcLength) ...
Branch(chatState) ==
    IF chatState.currentStep < chatState.arcLength THEN "step"
    ELSE IF chatState.currentStep = chatState.arcLength THEN "complete"
    ELSE "none"

\* IncrementStep that also marks the arc as started
IncrementStepStarted(chatState) ==
    [chatState EXCEPT !.currentStep = @ + 1, !.arcStarted = TRUE]

\* IncrementStep that starts over at 0 instead of reaching arcLength
IncrementStepWrap(chatState) ==
    [chatState EXCEPT !.currentStep = (@ + 1) % chatState.arcLength]

\* chatState.currentStep++
IncrementStep(chatState) == [chatState EXCEPT !.currentStep = @ + 1]

\* generateEpilogueForStory without its try/catch
generateEpilogueNoCatch(outcome) == outcome

\* What generateEpilogueForStory returns for an outcome of generateRaw:
\* "text" (a non-blank string), "empty" (blank or undefined, trimmed to '')
\* or "throw" (caught: '').  A result "throw" would be an exception let out.
generateEpilogueForStory(outcome) ==
    IF outcome = "text" THEN "text" ELSE "empty"

\* summarizeChatMainForStory has no try/catch around generateRaw
summarizeChatMainForStory(outcome) == outcome

\* The handler returns (or its promise rejects): the slot is released.
Finish(h, rejected) ==
    handlers' = [handlers EXCEPT ![h] = IF rejected THEN Rejected ELSE Idle]

Suspend(h, pc, obj, epiFailed) ==
    handlers' = [handlers EXCEPT ![h] =
                    [pc |-> pc, obj |-> obj, epiFailed |-> epiFailed]]

\* Lines 2163-2179: the end notice.  Entered with the metadata md of the open
\* chat, its chat array ch, and the value st of the object the handler holds.
NoticeStage(h, st, md, ch) ==
    /\ chatMetadata' = md
    /\ IF conditionsMet(settings, st)
       THEN CanPush(ch) /\ chat' = pushStoryMessage(ch, "notice")
       ELSE chat' = ch
    /\ Finish(h, FALSE)

\* Lines 2149-2162 up to the await of generateRaw in summarizeChatMainForStory.
\* With no text to summarize the summary is '' and the handler goes on.
\* obj is the handler's object field (Live or a value), st its value; ef
\* tells whether the epilogue generation of this invocation failed.
SummaryStage(h, obj, st, md, ch, ef) ==
    IF settings.summaryEnabled /\ ~st.summaryShown
    THEN IF hasText(ch)
         THEN /\ chatMetadata' = md
              /\ chat' = ch
              /\ Suspend(h, "genSummary", obj, ef)
         ELSE NoticeStage(h, st, md, ch)
    ELSE NoticeStage(h, st, md, ch)

\* Lines 2135-2148 up to the await of generateRaw in generateEpilogueForStory.
EpilogueStage(h, obj, st, md, ch) ==
    IF settings.epilogueEnabled /\ ~st.epilogueShown
    THEN IF hasText(ch)
         THEN /\ chatMetadata' = md
              /\ chat' = ch
              /\ Suspend(h, "genEpilogue", obj, FALSE)
         ELSE SummaryStage(h, obj, st, md, ch, TRUE)
    ELSE SummaryStage(h, obj, st, md, ch, FALSE)

\* The part of onMessageReceived after the four early returns.
CountedMessage(h) ==
    LET chatState == getChatStoryState(chatMetadata, settings)
    IN  IF Branch(chatState) = "step"
        THEN /\ chatMetadata' = saveChatStoryState(IncrementStep(chatState))
             /\ Suspend(h, "saveStep", Live, FALSE)
             /\ chat' = chat
        ELSE IF Branch(chatState) = "complete"
        THEN EpilogueStage(h, Live, chatState, chatState, chat)
        ELSE /\ chatMetadata' = chatState
             /\ chat' = chat
             /\ Finish(h, FALSE)

\* the swipe or opening scenario after a message-received signal
ScenAfterMessage(isUser) ==
    IF scen = "swiped" THEN (IF isUser THEN "swiped_user" ELSE "swiped_msg")
    ELSE IF ~isUser /\ scen = "swiped_msg" THEN "swiped_msg_msg"
    ELSE IF ~isUser /\ scen = "swiped_gen" THEN "swiped_gen_msg"
    ELSE IF ~isUser /\ scen = "opening" THEN "opening_msg"
    ELSE "none"

\* MESSAGE_RECEIVED with data.is_user = isUser, up to the first suspension.
MessageReceived(isUser) ==
    /\ \E g \in Slots : IsFree(g)
    /\ LET h == FreeSlot
           d == Disposition(isUser)
       IN  IF d = "regenerating"
           THEN /\ isRegenerating' = FALSE
                /\ UNCHANGED <<chatMetadata, chat, handlers>>
           ELSE IF d = "count"
           THEN /\ CountedMessage(h)
                /\ UNCHANGED isRegenerating
           ELSE UNCHANGED <<chatMetadata, chat, isRegenerating, handlers>>
    /\ scen' = ScenAfterMessage(isUser)
    /\ UNCHANGED <<call, settings, isLoadingChat, timers, injection>>

\* saveMetadata of the counted step resolved: lines 2128-2132.
StepSaved(h) ==
    /\ handlers[h].pc = "saveStep"
    /\ injection' = PromptAfterUpdate(chatMetadata, settings)
    /\ chatMetadata' = MetadataAfterStatus(chatMetadata, settings)
    /\ Finish(h, FALSE)
    /\ scen' = "none"
    /\ UNCHANGED <<call, settings, chat, isRegenerating, isLoadingChat, timers>>

\* saveMetadata rejected: nothing catches it, the handler ends there.
SaveFailed(h) ==
    /\ handlers[h].pc \in {"saveStep", "saveEpilogue", "saveSummary"}
    /\ Finish(h, TRUE)
    /\ scen' = "none"
    /\ UNCHANGED <<call, settings, chatMetadata, chat, isRegenerating,
                   isLoadingChat, timers, injection>>

\* EpilogueGenerated that goes on to the summary without waiting for the save
\* of epilogueShown
EpilogueGeneratedNoWait(h, outcome) ==
    /\ handlers[h].pc = "genEpilogue"
    /\ LET st == Held(h, chatMetadata)
           epilogue == generateEpilogueForStory(outcome)
       IN  IF epilogue = "text"
           THEN /\ CanPush(chat)
                /\ SummaryStage(h, Live, [st EXCEPT !.epilogueShown = TRUE],
                                saveChatStoryState([st EXCEPT !.epilogueShown = TRUE]),
                                pushStoryMessage(chat, "epilogue"), FALSE)
           ELSE SummaryStage(h, handlers[h].obj, st, chatMetadata, chat, TRUE)
    /\ scen' = "none"
    /\ UNCHANGED <<call, settings, isRegenerating, isLoadingChat, timers, injection>>

\* generateRaw of the epilogue settled with the given outcome.
EpilogueGenerated(h, outcome) ==
    /\ handlers[h].pc = "genEpilogue"
    /\ LET st == Held(h, chatMetadata)
           epilogue == generateEpilogueForStory(outcome)
       IN  IF epilogue = "throw"
           THEN /\ Finish(h, TRUE)
                /\ UNCHANGED <<chatMetadata, chat>>
           ELSE IF epilogue = "text"
           THEN /\ CanPush(chat)
                /\ chat' = pushStoryMessage(chat, "epilogue")
                /\ chatMetadata' = saveChatStoryState([st EXCEPT !.epilogueShown = TRUE])
                /\ Suspend(h, "saveEpilogue", Live, FALSE)
           ELSE SummaryStage(h, handlers[h].obj, st, chatMetadata, chat, TRUE)
    /\ scen' = "none"
    /\ UNCHANGED <<call, settings, isRegenerating, isLoadingChat, timers, injection>>

\* the save of epilogueShown resolved and the 1000 ms pause ran out
EpilogueSettled(h) ==
    /\ handlers[h].pc = "saveEpilogue"
    /\ SummaryStage(h, handlers[h].obj, Held(h, chatMetadata), chatMetadata, chat, FALSE)
    /\ scen' = "none"
    /\ UNCHANGED <<call, settings, isRegenerating, isLoadingChat, timers, injection>>

\* generateRaw of the summary settled with the given outcome.
SummaryGenerated(h, outcome) ==
    /\ handlers[h].pc = "genSummary"
    /\ LET st == Held(h, chatMetadata)
           summary == summarizeChatMainForStory(outcome)
       IN  IF summary = "throw"
           THEN /\ Finish(h, TRUE)
                /\ UNCHANGED <<chatMetadata, chat>>
           ELSE IF summary = "text"
           THEN /\ CanPush(chat)
                /\ chat' = pushStoryMessage(chat, "summary")
                /\ chatMetadata' = saveChatStoryState([st EXCEPT !.summaryShown = TRUE])
                /\ Suspend(h, "saveSummary", Live, handlers[h].epiFailed)
           ELSE NoticeStage(h, st, chatMetadata, chat)
    /\ scen' = "none"
    /\ UNCHANGED <<call, settings, isRegenerating, isLoadingChat, timers, injection>>

\* the save of summaryShown resolved and the 1000 ms pause ran out
SummarySettled(h) ==
    /\ handlers[h].pc = "saveSummary"
    /\ NoticeStage(h, Held(h, chatMetadata), chatMetadata, chat)
    /\ scen' = "none"
    /\ UNCHANGED <<call, settings, isRegenerating, isLoadingChat, timers, injection>>

Outcomes == {"text", "empty", "throw"}

\* ------------------------------------------------------------ the settings UI
\* ToggleEnabled without its call of updateStoryPrompt
ToggleEnabledNoRefresh ==
    /\ settings' = [settings EXCEPT !.enabled = ~@]
    /\ chatMetadata' = MetadataAfterStatus(chatMetadata, settings')
    /\ scen' = "none"
    /\ UNCHANGED <<call, chat, isRegenerating, isLoadingChat, timers, handlers,
                   injection>>

\* #story_mode_enabled change
ToggleEnabled ==
    /\ settings' = [settings EXCEPT !.enabled = ~@]
    /\ injection' = PromptAfterUpdate(chatMetadata, settings')
    /\ chatMetadata' = MetadataAfterStatus(chatMetadata, settings')
    /\ scen' = "none"
    /\ UNCHANGED <<call, chat, isRegenerating, isLoadingChat, timers, handlers>>

\* #story_arc_enabled change
ToggleStoryArc ==
    /\ settings' = [settings EXCEPT !.storyArcEnabled = ~@]
    /\ injection' = PromptAfterUpdate(chatMetadata, settings')
    /\ chatMetadata' = MetadataAfterStatus(chatMetadata, settings')
    /\ scen' = "none"
    /\ UNCHANGED <<call, chat, isRegenerating, isLoadingChat, timers, handlers>>

\* #epilogue_enabled change
ToggleEpilogue ==
    /\ settings' = [settings EXCEPT !.epilogueEnabled = ~@]
    /\ scen' = "none"
    /\ UNCHANGED <<call, chatMetadata, chat, isRegenerating, isLoadingChat,
                   timers, handlers, injection>>

\* #summary_enabled change
ToggleSummary ==
    /\ settings' = [settings EXCEPT !.summaryEnabled = ~@]
    /\ scen' = "none"
    /\ UNCHANGED <<call, chatMetadata, chat, isRegenerating, isLoadingChat,
                   timers, handlers, injection>>

\* #arc_length_slider input with value v
ArcLengthSlider(v) ==
    /\ settings' = [settings EXCEPT !.arcLength = v]
    /\ chatMetadata' = saveChatStoryState(
           [getChatStoryState(chatMetadata, settings') EXCEPT !.arcLength = v])
    /\ scen' = "none"
    /\ UNCHANGED <<call, chat, isRegenerating, isLoadingChat, timers,
                   handlers, injection>>

\* a reset that seeds the chat state anew from the settings
ResetArcReseed ==
    /\ chatMetadata' = saveChatStoryState(SeedState(settings))
    /\ injection' = PromptAfterUpdate(chatMetadata', settings)
    /\ scen' = "none"
    /\ UNCHANGED <<call, settings, chat, isRegenerating, isLoadingChat,
                   timers, handlers>>

\* #reset_arc_btn click, confirmed
ResetArc ==
    /\ LET saved == saveChatStoryState(
                      [getChatStoryState(chatMetadata, settings)
                         EXCEPT !.currentStep = 0, !.arcStarted = FALSE,
                                !.epilogueShown = FALSE, !.summaryShown = FALSE])
       IN  /\ chatMetadata' = saved
           /\ injection' = PromptAfterUpdate(saved, settings)
    /\ scen' = "none"
    /\ UNCHANGED <<call, settings, chat, isRegenerating, isLoadingChat,
                   timers, handlers>>

\* ------------------------------------------------------------ specifications
Resume ==
    \E h \in Slots :
        \/ StepSaved(h)
        \/ SaveFailed(h)
        \/ \E o \in Outcomes : EpilogueGenerated(h, o)
        \/ EpilogueSettled(h)
        \/ \E o \in Outcomes : SummaryGenerated(h, o)
        \/ SummarySettled(h)

Signal ==
    \/ GenerationStarted
    \/ MessageSwiped
    \/ MessageRegenerated
    \/ \E u \in BOOLEAN : MessageReceived(u)
    \/ \E st \in StoredChats : ChatChanged(st)
    \/ ChatLoadTimer
    \/ HostMessage

UserAction ==
    \/ ToggleEnabled
    \/ ToggleStoryArc
    \/ ToggleEpilogue
    \/ ToggleSummary
    \/ \E v \in ArcLengths : ArcLengthSlider(v)
    \/ ResetArc

\* every signal and user action may arrive while handlers are suspended
Next == Resume \/ Signal \/ UserAction

Spec == Init /\ [][Next]_vars

\* signals and user actions arrive only when no handler is suspended
NextSerial == Resume \/ (Quiescent /\ (Signal \/ UserAction))

SpecSerial == Init /\ [][NextSerial]_vars


\* one arc: as SpecSerial, the arc is never reset
NextOneArc ==
    \/ Resume
    \/ Quiescent /\ Signal
    \/ Quiescent /\ (ToggleEnabled \/ ToggleStoryArc \/ ToggleEpilogue \/ ToggleSummary)
    \/ Quiescent /\ \E v \in ArcLengths : ArcLengthSlider(v)

SpecOneArc == Init /\ [][NextOneArc]_vars

\* chats the host has in store that were open before and hold a story state:
\* one in the middle of an arc of another length than the initial setting,
\* one whose arc is over and whose epilogue and summary were shown
SeededChats ==
    {[md |-> [SeedState(InitSettings) EXCEPT !.currentStep = 2,
                                             !.arcLength = MinArcLength + 1],
      chat |-> [EmptyChat EXCEPT !.host = TRUE]],
     [md |-> [SeedState(InitSettings) EXCEPT !.currentStep = MinArcLength,
                                             !.epilogueShown = TRUE,
                                             !.summaryShown = TRUE],
      chat |-> [EmptyChat EXCEPT !.host = TRUE, !.epilogue = 1, !.summary = 1]]}

\* chats are reopened and arcs are reset, the post-arc options stay off;
\* one handler at a time
NextChats ==
    \/ \E h \in Slots : StepSaved(h) \/ SaveFailed(h)
    \/ Quiescent /\ Signal
    \/ Quiescent /\ (ToggleEnabled \/ ToggleStoryArc)
    \/ Quiescent /\ \E v \in ArcLengths : ArcLengthSlider(v)
    \/ Quiescent /\ ResetArc
    \/ Quiescent /\ \E st \in SeededChats : ChatChanged(st)

SpecChats == Init /\ [][NextChats]_vars

\* one chat, one arc: message-received signals are delivered while earlier
\* invocations are suspended
NextOverlap ==
    \/ Resume
    \/ MessageReceived(FALSE)
    \/ Quiescent /\ HostMessage
    \/ Quiescent /\ (ToggleEnabled \/ ToggleStoryArc \/ ToggleEpilogue \/ ToggleSummary)

SpecOverlap == Init /\ [][NextOverlap]_vars

\* one arc: the host opens another chat while an invocation is suspended
NextSwitch ==
    \/ Resume
    \/ \E st \in StoredChats : ChatChanged(st)
    \/ ChatLoadTimer
    \/ Quiescent /\ MessageReceived(FALSE)
    \/ Quiescent /\ HostMessage
    \/ Quiescent /\ (ToggleEnabled \/ ToggleStoryArc \/ ToggleEpilogue \/ ToggleSummary)

SpecSwitch == Init /\ [][NextSwitch]_vars

\* one chat: the user resets the arc while an invocation is suspended
NextResetRace ==
    \/ Resume
    \/ ResetArc
    \/ Quiescent /\ MessageReceived(FALSE)
    \/ Quiescent /\ HostMessage
    \/ Quiescent /\ (ToggleEnabled \/ ToggleStoryArc \/ ToggleEpilogue \/ ToggleSummary)

SpecResetRace == Init /\ [][NextResetRace]_vars

\* every lifecycle signal may arrive while invocations are suspended; the arc
\* length is not changed, the arc is not reset and the post-arc options stay
\* off, so an invocation is suspended only in the save of its step
NextLifecycle ==
    \/ \E h \in Slots : StepSaved(h) \/ SaveFailed(h)
    \/ Signal
    \/ Quiescent /\ (ToggleEnabled \/ ToggleStoryArc)

SpecLifecycle == Init /\ [][NextLifecycle]_vars

\* the master toggle and the arc toggle are used while invocations are
\* suspended in the save of their step; the arc length is changed, the arc is
\* reset and stored chats are opened between invocations
NextMaster ==
    \/ \E h \in Slots : StepSaved(h) \/ SaveFailed(h)
    \/ GenerationStarted
    \/ MessageSwiped
    \/ MessageReceived(FALSE)
    \/ HostMessage
    \/ Quiescent /\ \E st \in SeededChats : ChatChanged(st)
    \/ ChatLoadTimer
    \/ ToggleEnabled
    \/ ToggleStoryArc
    \/ Quiescent /\ \E v \in ArcLengths : ArcLengthSlider(v)
    \/ Quiescent /\ ResetArc

SpecMaster == Init /\ [][NextMaster]_vars

\* ------------------------------------------------------------ functions applied on their own
MaxStep == 7      \* the largest currentStep a function is applied to

\* ids a chat state may hold: none, one of the catalog, one that is not
\* (the entry was deleted from the catalog since)
StoryTypeIds   == storyTypes \cup {"", "ghost-42"}
AuthorStyleIds == authorStyles \cup {"", "ghost-42"}

SettingsInputs ==
    {[defaultSettings EXCEPT !.enabled = e, !.storyArcEnabled = a,
                             !.authorStyleEnabled = y, !.nsfwEnabled = n,
                             !.debugMode = d, !.arcLength = MinArcLength,
                             !.selectedStoryType = "t1",
                             !.selectedAuthorStyle = "s1"] :
       e \in BOOLEAN, a \in BOOLEAN, y \in BOOLEAN, n \in BOOLEAN, d \in BOOLEAN}

ChatStateInputs ==
    {[currentStep |-> c, arcStarted |-> FALSE,
      epilogueShown |-> FALSE, summaryShown |-> FALSE,
      selectedStoryType |-> t, selectedAuthorStyle |-> y, arcLength |-> l] :
       c \in 0..MaxStep, l \in ArcLengths,
       t \in StoryTypeIds, y \in AuthorStyleIds}

\* everything but the settings, the chat state and the call at rest
AtRest ==
    /\ chat = EmptyChat
    /\ isRegenerating = FALSE
    /\ isLoadingChat = FALSE
    /\ timers = 0
    /\ handlers = [h \in Slots |-> Idle]
    /\ injection = Cleared
    /\ scen = "none"

\* buildFullInjection(isPreview) is about to be called
InitCompose ==
    /\ settings \in SettingsInputs
    /\ chatMetadata \in ChatStateInputs \cup {NoState}
    /\ call \in {[fn |-> "buildFullInjection", isPreview |-> p,
                   done |-> FALSE, ret |-> <<>>] : p \in BOOLEAN}
    /\ AtRest

\* the call: it reads (and so seeds) the chat state and returns the text
Compose ==
    /\ call.fn = "buildFullInjection" /\ ~call.done
    /\ chatMetadata' = getChatStoryState(chatMetadata, settings)
    /\ call' = [call EXCEPT !.done = TRUE,
                            !.ret = buildFullInjection(call.isPreview, settings,
                                                       chatMetadata')]
    /\ UNCHANGED <<settings, chat, isRegenerating, isLoadingChat, timers,
                   handlers, injection, scen>>

SpecCompose == InitCompose /\ [][Compose]_vars

\* getPhaseInfo(currentStep, arcLength)
MaxPhaseArcLength == 30    \* the largest arcLength getPhaseInfo is applied to
MaxOverrun        == 5     \* how far past that its currentStep goes

NoPhase == [phase |-> "none"]

InitPhase ==
    /\ settings = InitSettings
    /\ chatMetadata = SeedState(InitSettings)
    /\ call \in {[fn |-> "getPhaseInfo", currentStep |-> c, arcLength |-> l,
                   done |-> FALSE, ret |-> NoPhase] :
                     c \in 0..(MaxPhaseArcLength + MaxOverrun),
                     l \in 0..MaxPhaseArcLength}
    /\ AtRest

PhaseInfo ==
    /\ call.fn = "getPhaseInfo" /\ ~call.done
    /\ call' = [call EXCEPT !.done = TRUE,
                            !.ret = getPhaseInfo(call.currentStep, call.arcLength)]
    /\ UNCHANGED <<settings, chatMetadata, chat, isRegenerating, isLoadingChat,
                   timers, handlers, injection, scen>>

SpecPhase == InitPhase /\ [][PhaseInfo]_vars

\* the progress template of buildPhaseInjection
MaxTemplateLen == 6    \* the longest progressTemplate, in tokens

TemplateTokens == {"{", "}", "currentStep", "phase", "unknownToken"}

TemplatesOfLen(n) == [1..n -> TemplateTokens]

Templates == UNION {TemplatesOfLen(n) : n \in 0..MaxTemplateLen}

\* the chat state the template is rendered for: step 3 of 5 comes next
RenderStates ==
    {[SeedState(InitSettings) EXCEPT !.currentStep = 2]}

InitRender ==
    /\ settings = InitSettings
    /\ chatMetadata \in RenderStates
    /\ call \in {[fn |-> "progressText", progressTemplate |-> tpl, done |-> 0,
                   ret |-> <<>>, again |-> <<>>] : tpl \in Templates}
    /\ AtRest

\* the progress text as buildPhaseInjection computes it for the chat state
RenderedFor(template) ==
    progressText(template,
                 getPhaseInfo(chatMetadata.currentStep + 1, chatMetadata.arcLength),
                 chatMetadata)

\* the progress template of a story type is rendered
Render ==
    /\ call.fn = "progressText" /\ call.done = 0
    /\ call' = [call EXCEPT !.done = 1, !.ret = RenderedFor(call.progressTemplate)]
    /\ UNCHANGED <<settings, chatMetadata, chat, isRegenerating, isLoadingChat,
                   timers, handlers, injection, scen>>

\* the text it returned is rendered again as a template
RenderAgain ==
    /\ call.fn = "progressText" /\ call.done = 1
    /\ call' = [call EXCEPT !.done = 2, !.again = RenderedFor(call.ret)]
    /\ UNCHANGED <<settings, chatMetadata, chat, isRegenerating, isLoadingChat,
                   timers, handlers, injection, scen>>

NextRender == Render \/ RenderAgain

SpecRender == InitRender /\ [][NextRender]_vars

\* ------------------------------------------------------------ properties
currentStep == chatMetadata.currentStep
arcLength   == chatMetadata.arcLength
FeatureOn   == settings.enabled /\ settings.storyArcEnabled

\* every enabled post-arc step has been shown
PostArcSatisfied(s, chatState) ==
    /\ s.epilogueEnabled => chatState.epilogueShown
    /\ s.summaryEnabled => chatState.summaryShown

Generating(h) == handlers[h].pc \in {"genEpilogue", "genSummary"}

\* C1: a swipe or regenerate signal sets isRegenerating; with the feature and
\* the arc on, no chat loading and currentStep < arcLength, the first non-user
\* message-received after it is suppressed (currentStep unchanged, flag
\* cleared) and the second one increments currentStep by exactly 1.
C1_OneShotSuppression ==
    [][ /\ (MessageSwiped \/ MessageRegenerated) => isRegenerating'
        /\ (MessageReceived(FALSE) /\ FeatureOn /\ ~isLoadingChat
              /\ currentStep < arcLength) =>
             /\ scen = "swiped" =>
                  isRegenerating /\ ~isRegenerating' /\ currentStep' = currentStep
             /\ scen = "swiped_msg" => currentStep' = currentStep + 1
      ]_vars

\* the second message after a swipe has been counted
C1_Witness ==
    /\ scen = "swiped_msg_msg"
    /\ ~isRegenerating
    /\ \E h \in Slots : handlers[h].pc = "saveStep"

\* C2 (as claimed): after swipe/regenerate and then generation-about-to-start
\* on a non-empty conversation, a non-user message-received leaves currentStep
\* as it was before the sequence.
C2_RegeneratedNotCounted ==
    [][ (MessageReceived(FALSE) /\ scen = "swiped_gen") =>
           currentStep' = currentStep ]_vars

\* C3: a message-received signal with isUser = true leaves currentStep (the
\* whole chat state), isRegenerating and isLoadingChat unchanged, starts no
\* handler work and appends nothing.
C3_UserMessageExempt ==
    [][ MessageReceived(TRUE) =>
           UNCHANGED <<chatMetadata, isRegenerating, isLoadingChat, chat, handlers>>
      ]_vars

\* a user message arrived right after a swipe and the suppression is still pending
C3_Witness == scen = "swiped_user" /\ isRegenerating

\* C4: a message-received signal that is not short-circuited, with
\* currentStep < arcLength, increases currentStep by exactly 1 and leaves every
\* other field of the chat state unchanged.
C4_CountedStep ==
    [][ (MessageReceived(FALSE) /\ ~isLoadingChat /\ ~isRegenerating
           /\ FeatureOn /\ currentStep < arcLength) =>
          chatMetadata' = [chatMetadata EXCEPT !.currentStep = currentStep + 1]
      ]_vars

\* a counted step has been taken and is being persisted
C4_Witness ==
    \E h \in Slots : handlers[h].pc = "saveStep" /\ currentStep >= 1

\* C5 (as claimed): while the arc is not reset, the end notice, the epilogue
\* and the summary are each appended to the conversation at most once.
C5_CompletionOnce ==
    chat.notice <= 1 /\ chat.epilogue <= 1 /\ chat.summary <= 1

\* the completion sequence has something to show for itself when entered now
CompletionVisible ==
    \/ PostArcSatisfied(settings, chatMetadata)
    \/ hasText(chat)

\* C6 (as claimed): the handler invocation whose increment makes currentStep
\* equal to arcLength goes on into the completion sequence: when its counted
\* step is done it either starts a post-arc generation or appends the notice.
C6_CompletionOnReachingLength ==
    [][ \A h \in Slots :
          (StepSaved(h) /\ currentStep = arcLength /\ FeatureOn
             /\ CompletionVisible) =>
            \/ handlers'[h].pc \in {"genEpilogue", "genSummary"}
            \/ chat'.notice = chat.notice + 1
      ]_vars

\* a step of invocation h that ends the completion sequence normally
CompletionEnds(h) ==
    /\ handlers'[h].pc = "idle"
    /\ \/ /\ IsFree(h) /\ h = FreeSlot
          /\ MessageReceived(FALSE)
          /\ Disposition(FALSE) = "count"
          /\ currentStep = arcLength
       \/ \E o \in Outcomes : EpilogueGenerated(h, o)
       \/ EpilogueSettled(h)
       \/ \E o \in Outcomes : SummaryGenerated(h, o)
       \/ SummarySettled(h)

C8_EpilogueFailureKeepsSummary ==
    [][ \A h \in Slots :
          /\ (EpilogueGenerated(h, "empty") \/ EpilogueGenerated(h, "throw")) =>
               /\ chat'.epilogue = chat.epilogue
               /\ chat'.notice = chat.notice
               /\ ~chatMetadata'.epilogueShown
               /\ handlers'[h].pc # "rejected"
               /\ (settings.summaryEnabled /\ ~chatMetadata.summaryShown) =>
                     handlers'[h].pc = "genSummary" /\ handlers'[h].epiFailed
          /\ (handlers[h].epiFailed /\
                ((\E o \in Outcomes : SummaryGenerated(h, o)) \/ SummarySettled(h))) =>
               /\ chat'.notice = chat.notice
               /\ ~chatMetadata'.epilogueShown
      ]_vars

\* the epilogue failed and the summary of the same invocation was appended
C8_Witness ==
    \E h \in Slots :
        /\ handlers[h].pc = "saveSummary" /\ handlers[h].epiFailed
        /\ chat.summary = 1 /\ chat.epilogue = 0
        /\ chatMetadata.summaryShown /\ ~chatMetadata.epilogueShown

\* C9 (as claimed): when generateRaw throws in the epilogue step or in the
\* summary step, the handler still completes normally, appends nothing for
\* that step and leaves its shown flag false.
C9_GenerationFailureContained ==
    [][ \A h \in Slots :
          /\ EpilogueGenerated(h, "throw") =>
               /\ handlers'[h].pc # "rejected"
               /\ chat'.epilogue = chat.epilogue
               /\ ~chatMetadata'.epilogueShown
          /\ SummaryGenerated(h, "throw") =>
               /\ handlers'[h].pc # "rejected"
               /\ chat'.summary = chat.summary
               /\ ~chatMetadata'.summaryShown
      ]_vars

\* C10: a message-received signal handled while currentStep > arcLength
\* changes no field of the chat state, appends no message and starts no
\* generation.
C10_OverrunInert ==
    [][ \A u \in BOOLEAN :
          (MessageReceived(u) /\ currentStep > arcLength) =>
            /\ chatMetadata' = chatMetadata
            /\ chat' = chat
            /\ Quiescent'
      ]_vars

\* past the arc length, the second message after a swipe passed every early
\* return and reached the branch on currentStep
C10_Witness ==
    /\ scen = "swiped_msg_msg"
    /\ currentStep > arcLength
    /\ FeatureOn /\ ~isLoadingChat /\ ~isRegenerating
    /\ settings.epilogueEnabled /\ settings.summaryEnabled
    /\ chat.host

Composed == call.fn = "buildFullInjection" /\ call.done

\* C11: with the feature globally disabled, buildFullInjection returns the
\* empty string, for every chat state, every other setting, an id in or out of
\* the catalog, and isPreview both true and false.
C11_InjectionGating ==
    (Composed /\ ~settings.enabled) => call.ret = <<>>

\* disabled, while everything else would have produced both segments
C11_Witness ==
    /\ Composed /\ ~settings.enabled /\ call.ret = <<>>
    /\ Len(buildFullInjectionUngated(call.isPreview, settings, chatMetadata)) = 2

\* C12: a chat-changed signal leaves isRegenerating false and isLoadingChat
\* true, and a message-received signal delivered while isLoadingChat is true
\* changes no field of the chat state, appends no message and starts no work.
C12_ChatLoadDebounce ==
    [][ /\ (\E st \in StoredChats \cup SeededChats : ChatChanged(st)) =>
              ~isRegenerating' /\ isLoadingChat'
        /\ \A u \in BOOLEAN :
              (MessageReceived(u) /\ isLoadingChat) =>
                 /\ chatMetadata' = chatMetadata
                 /\ chat' = chat
                 /\ Quiescent'
      ]_vars

\* a chat in the middle of its arc was reopened and, while it was loading, a
\* swipe and then a non-user message arrived
C12_Witness ==
    /\ isLoadingChat /\ timers > 0
    /\ scen = "swiped_msg"
    /\ FeatureOn
    /\ chat.host /\ currentStep = 2 /\ arcLength = MinArcLength + 1

\* C13: generation-started on a chat with no message sets isRegenerating, so
\* the next non-user message-received changes no field of the chat state and
\* appends nothing; on a chat with a message it clears isLoadingChat and sets
\* the extension prompt anew from the chat state.
C13_OpeningMessageNotCounted ==
    [][ /\ (GenerationStarted /\ ~NonEmpty(chat)) => isRegenerating'
        /\ (GenerationStarted /\ NonEmpty(chat)) =>
              /\ ~isLoadingChat'
              /\ injection' = PromptAfterUpdate(chatMetadata, settings)
        /\ (MessageReceived(FALSE) /\ scen = "opening") =>
              /\ chatMetadata' = chatMetadata
              /\ chat' = chat
              /\ Quiescent'
      ]_vars

\* the opening message of a chat arrived, with the arc running, and was
\* not counted
C13_Witness ==
    /\ scen = "opening_msg"
    /\ FeatureOn /\ ~isLoadingChat /\ ~isRegenerating
    /\ chat.host /\ currentStep = 0

PhaseCalled == call.fn = "getPhaseInfo" /\ call.done

\* the largest integer k with k <= (pct / 100) * n
FloorOfPercent(pct, n) ==
    CHOOSE k \in 0..n : 100 * k <= pct * n /\ pct * n < 100 * (k + 1)

Phases == {"setup", "confrontation", "resolution"}

C15_OverrunIsResolution ==
    (PhaseCalled /\ call.arcLength > 0 /\ call.currentStep > call.arcLength) =>
       /\ call.ret.phase = "resolution"
       /\ call.ret.positionInPhase =
             call.currentStep - FloorOfPercent(66, call.arcLength)

\* getPhaseInfo(arcLength + 5, arcLength) has returned
C15_Witness ==
    /\ PhaseCalled /\ call.arcLength = MaxPhaseArcLength
    /\ call.currentStep = call.arcLength + MaxOverrun
    /\ call.ret.phase = "resolution"
    /\ call.ret.positionInPhase > call.ret.totalInPhase

\* the segments of a composed text with the given tag
Segments(text, tag) == {i \in 1..Len(text) : text[i].tag = tag}

\* what the claims require for each segment to be emitted
StoryDue ==
    /\ settings.enabled /\ settings.storyArcEnabled
    /\ chatMetadata.selectedStoryType \in storyTypes
    /\ (chatMetadata.currentStep < chatMetadata.arcLength \/ call.isPreview)

StyleDue ==
    /\ settings.enabled /\ settings.authorStyleEnabled
    /\ chatMetadata.selectedAuthorStyle \in authorStyles

\* the phase of a step by the inclusive upper bounds
PhaseOf(step, len) ==
    IF step <= FloorOfPercent(33, len) THEN "setup"
    ELSE IF step <= FloorOfPercent(66, len) THEN "confrontation"
    ELSE "resolution"

\* C16: buildFullInjection emits the story arc segment if and only if the
\* feature and the arc are enabled, the selected story type is in the catalog
\* and (currentStep < arcLength or isPreview); the segment renders the step
\* number currentStep + 1 and the phase of step currentStep + 1.
C16_StorySegmentForNextStep ==
    Composed =>
       /\ Cardinality(Segments(call.ret, "story")) = IF StoryDue THEN 1 ELSE 0
       /\ \A i \in Segments(call.ret, "story") :
             /\ call.ret[i].text.step = chatMetadata.currentStep + 1
             /\ call.ret[i].text.arcLength = chatMetadata.arcLength
             /\ call.ret[i].text.phase =
                   PhaseOf(chatMetadata.currentStep + 1, chatMetadata.arcLength)

\* the last step of the setup phase is done: the segment renders step 2, the
\* first of the confrontation
C16_Witness ==
    /\ Composed /\ ~call.isPreview
    /\ chatMetadata.currentStep = 1 /\ chatMetadata.arcLength = MinArcLength
    /\ PhaseOf(1, MinArcLength) = "setup"
    /\ \E i \in Segments(call.ret, "story") :
          call.ret[i].text.step = 2 /\ call.ret[i].text.phase = "confrontation"

\* C17: when the selected story type is not in the catalog the result has no
\* story arc segment, and the style segment is there exactly as it would be
\* otherwise; when the selected author style is not in the catalog the result
\* has no style segment, and the story arc segment is there as otherwise.
C17_DanglingIdsSuppressSegment ==
    Composed =>
       /\ chatMetadata.selectedStoryType \notin storyTypes =>
             /\ Segments(call.ret, "story") = {}
             /\ Cardinality(Segments(call.ret, "style")) = IF StyleDue THEN 1 ELSE 0
             /\ Len(call.ret) = IF StyleDue THEN 1 ELSE 0
       /\ chatMetadata.selectedAuthorStyle \notin authorStyles =>
             /\ Segments(call.ret, "style") = {}
             /\ Cardinality(Segments(call.ret, "story")) = IF StoryDue THEN 1 ELSE 0
             /\ Len(call.ret) = IF StoryDue THEN 1 ELSE 0

\* the story type was deleted from the catalog, the style is valid: the
\* style segment alone
C17_Witness ==
    /\ Composed /\ settings.enabled /\ settings.storyArcEnabled
    /\ chatMetadata.selectedStoryType = "ghost-42"
    /\ chatMetadata.currentStep < chatMetadata.arcLength
    /\ Len(call.ret) = 1 /\ call.ret[1].tag = "style"
    /\ call.ret[1].id \in authorStyles

\* C18: the reset sets currentStep to 0 and epilogueShown and summaryShown to
\* false, and leaves arcLength, selectedStoryType and selectedAuthorStyle of
\* the chat as they were.
C18_ResetFrame ==
    [][ ResetArc =>
          /\ chatMetadata'.currentStep = 0
          /\ ~chatMetadata'.epilogueShown /\ ~chatMetadata'.summaryShown
          /\ chatMetadata'.arcLength = chatMetadata.arcLength
          /\ chatMetadata'.selectedStoryType = chatMetadata.selectedStoryType
          /\ chatMetadata'.selectedAuthorStyle = chatMetadata.selectedAuthorStyle
      ]_vars

\* the chat whose arc was over, with its epilogue and summary in it, has been
\* reset while the arc length setting was another than its own
C18_Witness ==
    /\ chat.epilogue = 1 /\ chat.summary = 1
    /\ currentStep = 0
    /\ ~chatMetadata.epilogueShown /\ ~chatMetadata.summaryShown
    /\ arcLength = MinArcLength /\ settings.arcLength # arcLength

\* an action whose only access to the chat state is through getChatStoryState
ReadsChatState ==
    \/ GenerationStarted
    \/ MessageSwiped
    \/ MessageRegenerated
    \/ ToggleEnabled
    \/ ToggleStoryArc
    \/ \E h \in Slots : StepSaved(h)

\* C19: the first read of the state of a chat that has none creates one with
\* currentStep 0, both shown flags false and the arc length and the selections
\* of the settings of that moment; a read of a chat that has a state returns
\* it as stored, whatever the settings are by then.
C19_SeedOnce ==
    [][ /\ \A st \in StoredChats :
              ChatChanged(st) =>
                chatMetadata' =
                  [currentStep |-> 0, arcStarted |-> FALSE,
                   epilogueShown |-> FALSE, summaryShown |-> FALSE,
                   selectedStoryType |-> settings.selectedStoryType,
                   selectedAuthorStyle |-> settings.selectedAuthorStyle,
                   arcLength |-> settings.arcLength]
        /\ \A st \in SeededChats : ChatChanged(st) => chatMetadata' = st.md
        /\ ReadsChatState => chatMetadata' = chatMetadata
      ]_vars

\* a chat seeded with another arc length than the setting of now was reopened
\* and its state was read for the prompt after a swipe
C19_Witness ==
    /\ scen = "swiped" /\ settings.enabled
    /\ currentStep = 2 /\ arcLength = MinArcLength + 1
    /\ settings.arcLength = MinArcLength

\* the template holds a placeholder that buildPhaseInjection replaces
HasPlaceholder(template) ==
    \E i \in 1..(Len(template) - 2) :
        /\ template[i] = "{" /\ template[i + 2] = "}"
        /\ \E n \in 1..Len(Placeholders) : template[i + 1] = Placeholders[n]

\* C20: a progress template without a recognized placeholder is rendered
\* unchanged, tokens in braces that are not recognized included, and
\* rendering the rendered text again returns it unchanged.
C20_TemplateIdempotence ==
    (call.fn = "progressText") =>
       /\ (call.done >= 1 /\ ~HasPlaceholder(call.progressTemplate)) =>
             call.ret = call.progressTemplate
       /\ call.done = 2 => call.again = call.ret

\* a placeholder inside braces was rendered, twice, and the braces around
\* its value were left alone
C20_Witness ==
    /\ call.fn = "progressText" /\ call.done = 2
    /\ call.progressTemplate = <<"{", "{", "phase", "}", "}">>
    /\ call.ret = <<"{", "confrontation", "}">>
    /\ call.again = call.ret

\* C21: the summary generation of an invocation is not started in the step
\* that appends its epilogue: that step waits for the save of epilogueShown,
\* and the summary starts only once it has resolved; likewise the end notice
\* is not appended in the step that appends the summary but once the save of
\* summaryShown has resolved.  A failed save ends the invocation.
C21_CompletionOrder ==
    [][ \A h \in Slots :
          /\ EpilogueGenerated(h, "text") =>
                /\ handlers'[h].pc = "saveEpilogue"
                /\ chat'.epilogue = chat.epilogue + 1
                /\ chatMetadata'.epilogueShown
          /\ (handlers[h].pc = "saveEpilogue" /\ handlers'[h].pc = "genSummary") =>
                /\ EpilogueSettled(h)
                /\ chat.epilogue >= 1 /\ chatMetadata.epilogueShown
          /\ SummaryGenerated(h, "text") =>
                /\ handlers'[h].pc = "saveSummary"
                /\ chat'.summary = chat.summary + 1
                /\ chat'.notice = chat.notice
                /\ chatMetadata'.summaryShown
          /\ (handlers[h].pc = "saveSummary" /\ chat'.notice > chat.notice) =>
                /\ SummarySettled(h)
                /\ chat.summary >= 1 /\ chatMetadata.summaryShown
          /\ SaveFailed(h) => chat' = chat /\ IsFree(h)'
      ]_vars

\* the summary is being generated after the epilogue of the same invocation
\* was appended and saved
C21_Witness ==
    \E h \in Slots :
        /\ handlers[h].pc = "genSummary" /\ ~handlers[h].epiFailed
        /\ chat.epilogue = 1 /\ chat.summary = 0 /\ chat.notice = 0
        /\ chatMetadata.epilogueShown /\ ~chatMetadata.summaryShown

\* C22 (as claimed): when the save of a counted step fails, currentStep stays
\* incremented in memory and the message-received handler still completes
\* normally.
C22_SaveFailureContained ==
    [][ \A h \in Slots :
          (SaveFailed(h) /\ handlers[h].pc = "saveStep") =>
             /\ currentStep' = currentStep
             /\ currentStep >= 1
             /\ handlers'[h].pc # "rejected"
      ]_vars

\* C23 (as claimed): with message-received signals delivered while earlier
\* invocations are suspended at currentStep = arcLength, the epilogue and the
\* summary are each appended at most once for the arc.
C23_OverlapAppendsOnce ==
    [][ \A h \in Slots :
          /\ EpilogueGenerated(h, "text") => chat.epilogue = 0
          /\ SummaryGenerated(h, "text") => chat.summary = 0
      ]_vars

\* C24 (as claimed): when the host has opened another chat while an
\* invocation was suspended in epilogue or summary generation, the
\* resumption of that invocation changes neither the story state nor the
\* messages of the chat that is open now.
C24_ChatIsolation ==
    [][ \A h \in Slots :
          (handlers[h].obj # Live /\ Generating(h) /\ handlers'[h] # handlers[h]) =>
             /\ chatMetadata' = chatMetadata
             /\ chat' = chat
      ]_vars

\* an invocation inside the completion sequence
InCompletion(h) ==
    handlers[h].pc \in {"genEpilogue", "saveEpilogue", "genSummary", "saveSummary"}

\* C25 (as claimed): when the arc was reset while an invocation was suspended
\* in the completion sequence (it is in the sequence and currentStep is 0 with
\* both shown flags false), the steps of that invocation leave currentStep 0
\* and both flags false.
C25_ResetWins ==
    [][ \A h \in Slots :
          (/\ InCompletion(h) /\ handlers'[h] # handlers[h]
           /\ currentStep = 0
           /\ ~chatMetadata.epilogueShown /\ ~chatMetadata.summaryShown) =>
             /\ currentStep' = 0
             /\ ~chatMetadata'.epilogueShown /\ ~chatMetadata'.summaryShown
      ]_vars

\* C26 (as claimed): the timer left pending by an earlier chat-changed signal
\* (it runs while a later one is still pending; the delays are equal, so the
\* timers run in the order they were set) does not clear isLoadingChat.
C26_LatestGracePeriod ==
    [][ (ChatLoadTimer /\ timers > 1 /\ isLoadingChat) => isLoadingChat' ]_vars

\* C27: with the arc length left alone, no interleaving of the
\* generation-started, swipe, regenerate, message-received and chat-changed
\* handlers (and of the resumptions of suspended invocations) takes
\* currentStep above arcLength.
C27_StepBound == currentStep <= arcLength

\* the arc reached its length while two invocations that counted a step are
\* both still suspended in their save
C27_Witness ==
    /\ currentStep = arcLength
    /\ \A h \in Slots : handlers[h].pc = "saveStep"

\* setup, confrontation, resolution in their order
PhaseRank(phase) ==
    CASE phase = "setup" -> 1
      [] phase = "confrontation" -> 2
      [] phase = "resolution" -> 3

\* the phases named by the story segment of a prompt (one or none)
RenderedPhases(prompt) ==
    {prompt.text[i].text.phase : i \in Segments(prompt.text, "story")}

\* C28: without a reset and without an arc-length change, no step of the open
\* chat lowers currentStep and the phase rendered in the prompt never moves
\* backwards: the phase held is never ahead of the phase of step
\* currentStep + 1, a prompt that replaces another names a phase not before
\* the one it replaces, and a newly set prompt names a phase not before the
\* phase of step currentStep + 1 as it was.  (The step that opens another
\* chat is the start of another conversation.)
C28_MonotoneProgress ==
    /\ [](\A p \in RenderedPhases(injection) :
            PhaseRank(p) <= PhaseRank(PhaseOf(currentStep + 1, arcLength)))
    /\ [][ ~(\E st \in StoredChats : ChatChanged(st)) =>
             /\ currentStep' >= currentStep
             /\ \A q \in RenderedPhases(injection') :
                   /\ \A p \in RenderedPhases(injection) :
                         PhaseRank(q) >= PhaseRank(p)
                   /\ injection' # injection =>
                         PhaseRank(q) >= PhaseRank(PhaseOf(currentStep + 1, arcLength))
         ]_vars

\* steps were counted up to the last one of the arc and the prompt names the
\* last phase for it
C28_Witness ==
    /\ RenderedPhases(injection) = {"resolution"}
    /\ currentStep = arcLength - 1
    /\ Quiescent

\* C29: in every reachable state in which the master toggle is off, the
\* prompt held by the host is the cleared one: empty text, position none.
C29_DisabledNothingInjected == ~settings.enabled => injection = Cleared

\* the master toggle is off in the middle of an arc whose story segment and
\* style segment would be injected if it were on
C29_Witness ==
    /\ ~settings.enabled
    /\ settings.storyArcEnabled /\ settings.authorStyleEnabled
    /\ currentStep >= 1 /\ currentStep < arcLength
    /\ buildFullInjectionUngated(FALSE, settings, chatMetadata) # <<>>
    /\ injection = Cleared

\* C30 (as claimed): after the handler of every generation-started signal,
\* on an empty or a non-empty chat, the text of the prompt held by the host
\* is buildFullInjection(false) of the settings and the chat state as they
\* are.
C30_InjectionCurrentAtGeneration ==
    [][ GenerationStarted =>
          injection'.text =
             buildFullInjection(FALSE, settings',
                                getChatStoryState(chatMetadata', settings'))
      ]_vars

====
